---------------------------- MODULE Spec2Model ----------------------------
(***************************************************************************)
(* Model of the Pyth price-feed client (src/pyth_rs/mod.rs): the struct    *)
(* Pyth {base_url, client}, its ApiClient implementation, and the two      *)
(* asynchronous operations get_price and get_latest_price.                 *)
(*                                                                         *)
(* An unsigned 64-bit value is a sequence of four 16-bit limbs, most       *)
(* significant first, so that the full u64 range (up to 2^64 - 1) is       *)
(* represented exactly.  A textual token (the output of format!("{id:x}")  *)
(* or of to_string()) is a sequence of one-character strings.              *)
(*                                                                         *)
(* The ApiClient trait's provided methods get and execute live in the      *)
(* parent module, which is not part of the sources at hand; they are       *)
(* modelled from the specification's description of the shared execution   *)
(* routine.                                                                *)
(***************************************************************************)
EXTENDS Integers, Sequences, FiniteSets, TLC

VARIABLES
    pyth,         \* the Pyth instance: [base_url, client]
    constructed,  \* history: the instance as Pyth::new returned it
    pc,           \* per caller: "idle", "awaiting", "responded", "done"
    call,         \* per caller: the operation in progress and its arguments
    built,        \* per caller: the request get_price / get_latest_price built
    wire,         \* per caller: the request dispatched on the transport
    sent,         \* per caller: requests dispatched for the call in progress
    hooked,       \* per caller: customize invocations for the call in progress
    response,     \* per caller: what the transport delivered
    result        \* per caller: the Result the call returned

vars == <<pyth, constructed, pc, call, built, wire, sent, hooked, response, result>>

---------------------------------------------------------------------------
(* Unsigned 64-bit integers. *)

U64Bits == 64
LimbBase == 2 ^ 16
NLimbs == U64Bits \div 16

U64Zero == [i \in 1..NLimbs |-> 0]
U64Max == [i \in 1..NLimbs |-> LimbBase - 1]

IsZero(x) == \A i \in 1..Len(x) : x[i] = 0

\* x divided by the small number r: [q |-> quotient, r |-> remainder].
RECURSIVE DivRemFrom(_, _, _, _, _)
DivRemFrom(x, r, i, rem, q) ==
    IF i > Len(x)
    THEN [q |-> q, r |-> rem]
    ELSE LET cur == rem * LimbBase + x[i]
         IN  DivRemFrom(x, r, i + 1, cur % r, Append(q, cur \div r))

DivRem(x, r) == DivRemFrom(x, r, 1, 0, <<>>)

---------------------------------------------------------------------------
(* Integer formatting: format!("{id:x}") and u64::to_string(). *)

DigitChars == <<"0", "1", "2", "3", "4", "5", "6", "7",
                "8", "9", "a", "b", "c", "d", "e", "f">>

\* The formatter's loop: emit x % radix, x /= radix, until x is 0; the
\* digits come out least significant first and are read back reversed.
\* (dr is bound through a one-element set so that each division is
\* evaluated once, also where the operation is evaluated under ENABLED.)
RECURSIVE fmt_int(_, _, _)
fmt_int(x, radix, acc) ==
    CHOOSE out \in
        { IF IsZero(dr.q)
          THEN <<DigitChars[dr.r + 1]>> \o acc
          ELSE fmt_int(dr.q, radix, <<DigitChars[dr.r + 1]>> \o acc) :
            dr \in {DivRem(x, radix)} } : TRUE

\* Variant: the identifier formatted with "{id}" (decimal).
LowerHex_decimal(id) == fmt_int(id, 10, <<>>)

\* Variant: the identifier formatted with "{id:016x}" (zero-padded).
LowerHex_padded(id) ==
    LET tok == fmt_int(id, 16, <<>>)
    IN  [k \in 1..(16 - Len(tok)) |-> "0"] \o tok

\* format!("{id:x}")
LowerHex(id) == fmt_int(id, 16, <<>>)

\* params.timestamp.to_string()
to_string(t) == fmt_int(t, 10, <<>>)

---------------------------------------------------------------------------
(* The Pyth struct and its ApiClient implementation. *)

Client_new == "transport"

Pyth_new(b) == [base_url |-> b, client |-> Client_new]

base_url(self) == self.base_url

client(self) == self.client

\* Variant: a hook that appends a query pair of its own.
customize_api_key(req) ==
    [req EXCEPT !.query = @ \o << <<"api_key", <<"0">>>> >>]

customize(req) == req

PriceParams_new(ids, timestamp) == [ids |-> ids, timestamp |-> timestamp]

---------------------------------------------------------------------------
(* Request building. *)

NoRequest == [method |-> "none", url |-> "", query |-> <<>>]
NoWire == [req |-> NoRequest, via |-> "none"]
NoCall == [op |-> "none"]
NoResponse == [kind |-> "none"]
NoResult == [tag |-> "pending"]

\* ApiClient::get: a GET request builder for base_url() + "/" + route.
get(self, route) ==
    [method |-> "GET", url |-> base_url(self) \o "/" \o route, query |-> <<>>]

\* RequestBuilder::query(&pairs): the pairs are appended in order.
query(req, pairs) == [req EXCEPT !.query = @ \o pairs]

\* Variant: the historical route without its trailing slash.
price_route_no_slash == "updates/price"

price_route == "updates/price/"

\* Variant: the historical route copied into get_latest_price.
latest_route_copied == "updates/price/"

latest_route == "updates/price/latest"

\* ids.into_iter().map(|id| ("ids[]", format!("{id:x}"))).collect()
ids_pairs(ids) == [i \in 1..Len(ids) |-> <<"ids[]", LowerHex(ids[i])>>]

\* Variant: the timestamp pair put first instead of pushed last.
price_query_pairs_ts_first(params) ==
    << <<"timestamp", to_string(params.timestamp)>> >> \o ids_pairs(params.ids)

\* get_price's query_pairs, after the push of the timestamp pair.
price_query_pairs(params) ==
    Append(ids_pairs(params.ids), <<"timestamp", to_string(params.timestamp)>>)

\* get_latest_price's query_pairs.
latest_query_pairs(ids) == ids_pairs(ids)

---------------------------------------------------------------------------
(* The shared execution routine and the transport. *)

StatusSamples == {200, 404}

is_success(status) == status >= 200 /\ status <= 299

\* What the server can answer to the request w: the body is either a
\* PriceUpdate for the query it received, or something of another shape.
Bodies(w) == {[shape |-> s, for |-> w.req.query] : s \in {"PriceUpdate", "malformed"}}

Responses(w) ==
    {[kind |-> "connect_failure"]}
    \cup {[kind |-> "http", status |-> s, body |-> b] :
            s \in StatusSamples, b \in Bodies(w)}

\* execute, up to its await: customize the request and dispatch it once.
execute(c, req) ==
    /\ wire' = [wire EXCEPT ![c] = [req |-> customize(req), via |-> client(pyth)]]
    /\ hooked' = [hooked EXCEPT ![c] = @ + 1]
    /\ sent' = [sent EXCEPT ![c] = @ + 1]
    /\ pc' = [pc EXCEPT ![c] = "awaiting"]

\* execute, after its await: the typed result of what the transport delivered.
execute_outcome(resp) ==
    IF resp.kind = "connect_failure"
    THEN [tag |-> "Err", kind |-> "Transport"]
    ELSE IF ~is_success(resp.status)
    THEN [tag |-> "Err", kind |-> "Status", status |-> resp.status, body |-> resp.body]
    ELSE IF resp.body.shape # "PriceUpdate"
    THEN [tag |-> "Err", kind |-> "Decode"]
    ELSE [tag |-> "Ok", value |-> resp.body]

---------------------------------------------------------------------------
(* Operations. *)

\* Variant: the transport guarded by a lock held across the await, so that a
\* call starts only when no other call is in flight.
get_price_locked(c, params) ==
    /\ pc[c] = "idle"
    /\ \A d \in DOMAIN pc \ {c} : pc[d] \in {"idle", "done"}
    /\ LET route == price_route
           query_pairs == price_query_pairs(params)
           req == query(get(pyth, route), query_pairs)
       IN  /\ built' = [built EXCEPT ![c] = req]
           /\ execute(c, req)
    /\ call' = [call EXCEPT ![c] =
                  [op |-> "get_price", ids |-> params.ids,
                   timestamp |-> params.timestamp]]
    /\ UNCHANGED <<pyth, constructed, response, result>>

get_price(c, params) ==
    /\ pc[c] = "idle"
    /\ LET route == price_route
           query_pairs == price_query_pairs(params)
           req == query(get(pyth, route), query_pairs)
       IN  /\ built' = [built EXCEPT ![c] = req]
           /\ execute(c, req)
    /\ call' = [call EXCEPT ![c] =
                  [op |-> "get_price", ids |-> params.ids,
                   timestamp |-> params.timestamp]]
    /\ UNCHANGED <<pyth, constructed, response, result>>

\* Variant: an empty ids sequence rejected before any request is built.
get_latest_price_validating(c, ids) ==
    /\ pc[c] = "idle"
    /\ call' = [call EXCEPT ![c] = [op |-> "get_latest_price", ids |-> ids]]
    /\ IF ids = <<>>
       THEN /\ result' = [result EXCEPT ![c] = [tag |-> "Err", kind |-> "InvalidInput"]]
            /\ pc' = [pc EXCEPT ![c] = "done"]
            /\ UNCHANGED <<pyth, constructed, built, wire, sent, hooked, response>>
       ELSE /\ LET req == query(get(pyth, latest_route), latest_query_pairs(ids))
               IN  /\ built' = [built EXCEPT ![c] = req]
                   /\ execute(c, req)
            /\ UNCHANGED <<pyth, constructed, response, result>>

get_latest_price(c, ids) ==
    /\ pc[c] = "idle"
    /\ LET route == latest_route
           query_pairs == latest_query_pairs(ids)
           req == query(get(pyth, route), query_pairs)
       IN  /\ built' = [built EXCEPT ![c] = req]
           /\ execute(c, req)
    /\ call' = [call EXCEPT ![c] = [op |-> "get_latest_price", ids |-> ids]]
    /\ UNCHANGED <<pyth, constructed, response, result>>

\* The transport completes the in-flight request of caller c.
Respond(c, resp) ==
    /\ pc[c] = "awaiting"
    /\ resp \in Responses(wire[c])
    /\ response' = [response EXCEPT ![c] = resp]
    /\ pc' = [pc EXCEPT ![c] = "responded"]
    /\ UNCHANGED <<pyth, constructed, call, built, wire, sent, hooked, result>>

\* Variant: a failed request is dispatched again instead of returned.
get_price_return_retry(c) ==
    /\ pc[c] = "responded"
    /\ call[c].op = "get_price"
    /\ IF execute_outcome(response[c]).tag = "Err"
       THEN /\ execute(c, built[c])
            /\ UNCHANGED <<pyth, constructed, call, built, response, result>>
       ELSE /\ result' = [result EXCEPT ![c] = execute_outcome(response[c])]
            /\ pc' = [pc EXCEPT ![c] = "done"]
            /\ UNCHANGED <<pyth, constructed, call, built, wire, sent, hooked, response>>

\* Variant: an error replaced by a default value (unwrap_or_default).
get_price_return_swallow(c) ==
    /\ pc[c] = "responded"
    /\ call[c].op = "get_price"
    /\ result' = [result EXCEPT ![c] =
                    IF execute_outcome(response[c]).tag = "Err"
                    THEN [tag |-> "Ok", value |-> [shape |-> "PriceUpdate", for |-> <<>>]]
                    ELSE execute_outcome(response[c])]
    /\ pc' = [pc EXCEPT ![c] = "done"]
    /\ UNCHANGED <<pyth, constructed, call, built, wire, sent, hooked, response>>

\* self.execute(req).await as get_price's tail expression.
get_price_return(c) ==
    /\ pc[c] = "responded"
    /\ call[c].op = "get_price"
    /\ result' = [result EXCEPT ![c] = execute_outcome(response[c])]
    /\ pc' = [pc EXCEPT ![c] = "done"]
    /\ UNCHANGED <<pyth, constructed, call, built, wire, sent, hooked, response>>

\* self.execute(req).await as get_latest_price's tail expression.
get_latest_price_return(c) ==
    /\ pc[c] = "responded"
    /\ call[c].op = "get_latest_price"
    /\ result' = [result EXCEPT ![c] = execute_outcome(response[c])]
    /\ pc' = [pc EXCEPT ![c] = "done"]
    /\ UNCHANGED <<pyth, constructed, call, built, wire, sent, hooked, response>>

\* The caller takes the result; nothing of the call is retained.
Drop(c) ==
    /\ pc[c] = "done"
    /\ pc' = [pc EXCEPT ![c] = "idle"]
    /\ call' = [call EXCEPT ![c] = NoCall]
    /\ built' = [built EXCEPT ![c] = NoRequest]
    /\ wire' = [wire EXCEPT ![c] = NoWire]
    /\ sent' = [sent EXCEPT ![c] = 0]
    /\ hooked' = [hooked EXCEPT ![c] = 0]
    /\ response' = [response EXCEPT ![c] = NoResponse]
    /\ result' = [result EXCEPT ![c] = NoResult]
    /\ UNCHANGED <<pyth, constructed>>

---------------------------------------------------------------------------
(* Inputs and specifications. *)

MaxIds == 3
MaxConcIds == 2

Callers == {"A", "B"}
SoloCallers == {"A"}

\* 0xfedcba9876543210: sixteen digits, every hexadecimal digit, top bit set.
AllDigitsId == <<65244, 47768, 30292, 12816>>

\* 0, 1, 0xff, 0x1000, 0xfedcba9876543210
IdSamples ==
    { U64Zero,
      <<0, 0, 0, 1>>,
      <<0, 0, 0, 255>>,
      <<0, 0, 0, 4096>>,
      AllDigitsId }

\* 1 and 0xff
ConcIdSamples == { <<0, 0, 0, 1>>, <<0, 0, 0, 255>> }

\* 0, 1700000000, 2^64 - 1
TsSamples == { U64Zero, <<0, 0, 25939, 61696>>, U64Max }

ConcTsSamples == { <<0, 0, 25939, 61696>> }

BaseUrls == { "https://hermes.pyth.network", "http://localhost:8080/" }

ConcBaseUrls == { "https://hermes.pyth.network" }

\* Limbs 0x0000, 0x0001, 0x00ff, 0x0f00, 0x1000, 0xffff: the identifiers
\* made of them have every digit count from 1 to 16 and zero digits at the
\* head, inside and at the tail.
LimbSamples == {0, 1, 255, 3840, 4096, LimbBase - 1}

EncIds == [1..NLimbs -> LimbSamples]

\* One identifier of EncIds, or two of IdSamples.
EncIdSeqs == [1..1 -> EncIds] \cup [1..2 -> IdSamples]

SeqsUpTo(S, n) == UNION { [1..k -> S] : k \in 0..n }

IdSeqs == SeqsUpTo(IdSamples, MaxIds)

ConcIdSeqs == SeqsUpTo(ConcIdSamples, MaxConcIds)

InitWith(urls) ==
    /\ pyth \in {Pyth_new(b) : b \in urls}
    /\ constructed = pyth
    /\ pc = [c \in Callers |-> "idle"]
    /\ call = [c \in Callers |-> NoCall]
    /\ built = [c \in Callers |-> NoRequest]
    /\ wire = [c \in Callers |-> NoWire]
    /\ sent = [c \in Callers |-> 0]
    /\ hooked = [c \in Callers |-> 0]
    /\ response = [c \in Callers |-> NoResponse]
    /\ result = [c \in Callers |-> NoResult]

Init == InitWith(BaseUrls)

InitConc == InitWith(ConcBaseUrls)

\* The inputs are enumerated only where the operation's own guard can hold.
Next ==
    \E c \in SoloCallers :
        \/ /\ pc[c] = "idle"
           /\ \E ids \in IdSeqs, t \in TsSamples : get_price(c, PriceParams_new(ids, t))
        \/ /\ pc[c] = "idle"
           /\ \E ids \in IdSeqs : get_latest_price(c, ids)
        \/ /\ pc[c] = "awaiting"
           /\ \E resp \in Responses(wire[c]) : Respond(c, resp)
        \/ get_price_return(c)
        \/ get_latest_price_return(c)
        \/ Drop(c)

NextConc ==
    \E c \in Callers :
        \/ /\ pc[c] = "idle"
           /\ \E ids \in ConcIdSeqs, t \in ConcTsSamples :
                 get_price(c, PriceParams_new(ids, t))
        \/ /\ pc[c] = "idle"
           /\ \E ids \in ConcIdSeqs : get_latest_price(c, ids)
        \/ /\ pc[c] = "awaiting"
           /\ \E resp \in Responses(wire[c]) : Respond(c, resp)
        \/ get_price_return(c)
        \/ get_latest_price_return(c)
        \/ Drop(c)

\* One caller, identifiers drawn from EncIdSeqs.
NextEnc ==
    \E c \in SoloCallers :
        \/ /\ pc[c] = "idle"
           /\ \E ids \in EncIdSeqs, t \in ConcTsSamples :
                 get_price(c, PriceParams_new(ids, t))
        \/ /\ pc[c] = "idle"
           /\ \E ids \in EncIdSeqs : get_latest_price(c, ids)
        \/ /\ pc[c] = "awaiting"
           /\ \E resp \in Responses(wire[c]) : Respond(c, resp)
        \/ get_price_return(c)
        \/ get_latest_price_return(c)
        \/ Drop(c)

Spec == Init /\ [][Next]_vars

SpecEnc == InitConc /\ [][NextEnc]_vars

SpecConc == InitConc /\ [][NextConc]_vars

---------------------------------------------------------------------------
(* Reading a token back: u64::from_str_radix, the inverse the properties   *)
(* below measure the encoding against.                                     *)

\* x * m + d on the four limbs, least significant first; over: the result
\* does not fit 64 bits.
MulAdd(x, m, d) ==
    LET v4 == x[4] * m + d
        v3 == x[3] * m + v4 \div LimbBase
        v2 == x[2] * m + v3 \div LimbBase
        v1 == x[1] * m + v2 \div LimbBase
    IN  [val |-> <<v1 % LimbBase, v2 % LimbBase, v3 % LimbBase, v4 % LimbBase>>,
         over |-> v1 \div LimbBase # 0]

\* The value of a digit character; Len(DigitChars) for any other character.
DigitTable == [k \in 1..Len(DigitChars) |-> <<DigitChars[k], k - 1>>]
DigitVal(ch) ==
    LET hit == SelectSeq(DigitTable, LAMBDA e : e[1] = ch)
    IN  IF hit = <<>> THEN Len(DigitChars) ELSE hit[1][2]

RECURSIVE ParseFrom(_, _, _, _)
ParseFrom(tok, radix, i, acc) ==
    IF i > Len(tok)
    THEN [ok |-> TRUE, val |-> acc]
    ELSE LET d == DigitVal(tok[i])
             ma == MulAdd(acc, radix, d)
         IN  IF d >= radix \/ ma.over
             THEN [ok |-> FALSE, val |-> U64Zero]
             ELSE ParseFrom(tok, radix, i + 1, ma.val)

from_str_radix(tok, radix) ==
    IF Len(tok) = 0
    THEN [ok |-> FALSE, val |-> U64Zero]
    ELSE ParseFrom(tok, radix, 1, U64Zero)

Reads(tok, radix, x) == from_str_radix(tok, radix) = [ok |-> TRUE, val |-> x]

HexChars == {DigitChars[k] : k \in 1..16}
DecChars == {DigitChars[k] : k \in 1..10}

\* A digit string with no leading zero, except the one-digit string "0".
Minimal(tok, chars) ==
    /\ Len(tok) >= 1
    /\ \A k \in 1..Len(tok) : tok[k] \in chars
    /\ (Len(tok) > 1 => tok[1] # "0")

Active(c) == pc[c] # "idle"

\* The tokens of the ids[] pairs at the head of a query.
Token(q, i) == q[i][2]

\* ids = [1, 255, 4096], timestamp = 1700000000, and their query pairs.
ExampleIds == << <<0, 0, 0, 1>>, <<0, 0, 0, 255>>, <<0, 0, 0, 4096>> >>
ExampleTs == <<0, 0, 25939, 61696>>
ExampleIdsPairs ==
    << <<"ids[]", <<"1">>>>,
       <<"ids[]", <<"f", "f">>>>,
       <<"ids[]", <<"1", "0", "0", "0">>>> >>
ExampleTsPair ==
    <<"timestamp", <<"1", "7", "0", "0", "0", "0", "0", "0", "0", "0">>>>

IsPrice(c) == call[c].op = "get_price"
IsLatest(c) == call[c].op = "get_latest_price"

\* The first Len(ids) pairs of q are ids[] pairs that read back, as
\* hexadecimal, to ids, element by element.
IdsPairsOf(q, ids) ==
    /\ Len(q) >= Len(ids)
    /\ \A i \in 1..Len(ids) :
          /\ q[i][1] = "ids[]"
          /\ Minimal(Token(q, i), HexChars)
          /\ Reads(Token(q, i), 16, ids[i])

---------------------------------------------------------------------------
(* Properties. *)

\* C1: the query pairs get_price hands to its request are one ids[] pair per
\* element of ids, in input order and with duplicates kept, each value the
\* identifier's lowercase hexadecimal text, followed by exactly one timestamp
\* pair whose value is the timestamp in decimal; ids = [1, 255, 4096] and
\* t = 1700000000 give ids[]=1, ids[]=ff, ids[]=1000, timestamp=1700000000.
C1_PriceQueryPairs ==
    \A c \in Callers :
        IsPrice(c) =>
            LET q == built[c].query
                ids == call[c].ids
                n == Len(call[c].ids)
            IN  /\ Len(q) = n + 1
                /\ IdsPairsOf(q, ids)
                /\ q[n + 1][1] = "timestamp"
                /\ Minimal(q[n + 1][2], DecChars)
                /\ Reads(q[n + 1][2], 10, call[c].timestamp)
                /\ (ids = ExampleIds /\ call[c].timestamp = ExampleTs
                      => q = Append(ExampleIdsPairs, ExampleTsPair))

C1_Witness ==
    \E c \in Callers :
        /\ IsPrice(c)
        /\ pc[c] = "awaiting"
        /\ call[c].ids = ExampleIds
        /\ call[c].timestamp = ExampleTs

\* C2: the query pairs of get_latest_price are the ordered ids[] hex pairs
\* get_price emits for the same ids, with no timestamp pair, and its request
\* goes to another route than get_price's.
C2_LatestQueryPairs ==
    \A c \in Callers :
        IsLatest(c) =>
            LET q == built[c].query
                ids == call[c].ids
            IN  /\ Len(q) = Len(ids)
                /\ IdsPairsOf(q, ids)
                /\ \A k \in 1..Len(q) : q[k][1] # "timestamp"
                /\ \A t \in TsSamples :
                      q = SubSeq(price_query_pairs(PriceParams_new(ids, t)), 1, Len(ids))
                /\ (ids = ExampleIds => q = ExampleIdsPairs)
                /\ built[c].url # get(pyth, price_route).url

C2_Witness ==
    \E c \in Callers :
        /\ IsLatest(c)
        /\ pc[c] = "awaiting"
        /\ call[c].ids = ExampleIds

\* C3: the identifier encoding is lossless and deterministic: every emitted
\* token, read as hexadecimal, is the identifier it was made from; equal
\* identifiers have equal tokens and different identifiers different tokens.
C3_HexRoundTrip ==
    \A c \in Callers :
        Active(c) =>
            LET q == wire[c].req.query
                ids == call[c].ids
            IN  /\ \A i \in 1..Len(ids) : Reads(Token(q, i), 16, ids[i])
                /\ \A i, j \in 1..Len(ids) :
                      (Token(q, i) = Token(q, j)) <=> (ids[i] = ids[j])

C3_Witness ==
    \E c \in Callers :
        /\ pc[c] = "awaiting"
        /\ call[c].ids = << <<0, 255, 0, 3840>> >>
        /\ Token(wire[c].req.query, 1) =
              <<"f", "f", "0", "0", "0", "0", "0", "f", "0", "0">>

\* C4: every emitted identifier token is the minimal lowercase hexadecimal
\* digit sequence: characters 0-9 and a-f only (so no 0x prefix), between 1
\* and 16 of them, no leading zero unless the value is 0, and the value 0 is
\* the one-character token "0".
C4_MinimalLowerHex ==
    \A c \in Callers :
        Active(c) =>
            \A i \in 1..Len(call[c].ids) :
                LET tok == Token(wire[c].req.query, i)
                IN  /\ Len(tok) >= 1
                    /\ Len(tok) <= 16
                    /\ \A k \in 1..Len(tok) : tok[k] \in HexChars
                    /\ (tok[1] = "0" => IsZero(call[c].ids[i]))
                    /\ (IsZero(call[c].ids[i]) <=> tok = <<"0">>)

C4_Witness ==
    \E c \in Callers :
        /\ pc[c] = "awaiting"
        /\ call[c].ids = <<U64Zero, AllDigitsId>>
        /\ Token(wire[c].req.query, 1) = <<"0">>
        /\ Len(Token(wire[c].req.query, 2)) = 16

NumIdsPairs(q) == Cardinality({k \in 1..Len(q) : q[k][1] = "ids[]"})

\* C5: with an empty ids sequence both operations are accepted and dispatch
\* a request with no ids[] pair: get_price's query is the single timestamp
\* pair, get_latest_price's query is empty; the call ends with what the
\* transport delivered, not with a rejection made before dispatch.
C5_EmptyIdsDispatched ==
    \A c \in Callers :
        /\ pc[c] = "idle" =>
              /\ ENABLED get_latest_price(c, <<>>)
              /\ \A t \in ConcTsSamples : ENABLED get_price(c, PriceParams_new(<<>>, t))
        /\ (Active(c) /\ call[c].ids = <<>>) =>
              /\ sent[c] = 1
              /\ wire[c].via = client(pyth)
              /\ NumIdsPairs(wire[c].req.query) = 0
              /\ (IsPrice(c) =>
                    /\ Len(wire[c].req.query) = 1
                    /\ wire[c].req.query[1][1] = "timestamp")
              /\ (IsLatest(c) => wire[c].req.query = <<>>)
              /\ (pc[c] = "done" => response[c] \in Responses(wire[c]))

C5_Witness ==
    /\ pc["A"] = "done"
    /\ IsPrice("A")
    /\ call["A"].ids = <<>>
    /\ pc["B"] = "done"
    /\ IsLatest("B")
    /\ call["B"].ids = <<>>
    /\ result["A"].tag = "Ok"
    /\ result["B"].tag = "Ok"

\* C6: get_price sends a GET request to <base_url>/updates/price/ and
\* get_latest_price a GET request to <base_url>/updates/price/latest, the
\* base URL being the string the client was constructed with, unnormalised
\* (a base URL ending in a slash gives a double slash).
C6_Targets ==
    \A c \in Callers :
        Active(c) =>
            /\ wire[c].req.method = "GET"
            /\ (IsPrice(c) =>
                  wire[c].req.url = constructed.base_url \o "/updates/price/")
            /\ (IsLatest(c) =>
                  wire[c].req.url = constructed.base_url \o "/updates/price/latest")
            /\ (IsPrice(c) /\ constructed.base_url = "http://localhost:8080/" =>
                  wire[c].req.url = "http://localhost:8080//updates/price/")
            /\ (IsLatest(c) /\ constructed.base_url = "https://hermes.pyth.network" =>
                  wire[c].req.url = "https://hermes.pyth.network/updates/price/latest")

C6_Witness ==
    \E c \in Callers :
        /\ IsPrice(c)
        /\ pc[c] = "awaiting"
        /\ constructed.base_url = "http://localhost:8080/"
        /\ wire[c].req.url = "http://localhost:8080//updates/price/"

\* C7: a call dispatches exactly one request and completes with the outcome
\* of that request, success or error: no retry, no fallback, and no answer
\* without a dispatch.
C7_OneDispatch ==
    \A c \in Callers :
        /\ (pc[c] = "idle" => sent[c] = 0)
        /\ (Active(c) => sent[c] = 1)
        /\ (pc[c] \in {"responded", "done"} => response[c] \in Responses(wire[c]))
        /\ (pc[c] = "done" => result[c] = execute_outcome(response[c]))

C7_Witness ==
    \E c \in Callers :
        /\ pc[c] = "done"
        /\ IsPrice(c)
        /\ result[c].tag = "Err"
        /\ sent[c] = 1

\* C8: a failure reaches the caller as an error of the kind that occurred and
\* never as a success: a connection failure as a transport error, a non-2xx
\* response as an HTTP status error, a 2xx response with a malformed body as
\* a decode error; and the error kind tells the three apart.
C8_ErrorKinds ==
    \A c \in Callers :
        pc[c] = "done" =>
            LET r == result[c]
                resp == response[c]
                refused == resp.kind = "connect_failure"
                non2xx == resp.kind = "http" /\ resp.status \notin 200..299
                badbody == /\ resp.kind = "http"
                           /\ resp.status \in 200..299
                           /\ resp.body.shape = "malformed"
            IN  /\ r.tag \in {"Ok", "Err"}
                /\ (r.tag = "Ok" <=> ~(refused \/ non2xx \/ badbody))
                /\ (r.tag = "Err" =>
                      /\ r.kind \in {"Transport", "Status", "Decode"}
                      /\ (r.kind = "Transport" <=> refused)
                      /\ (r.kind = "Status" <=> non2xx)
                      /\ (r.kind = "Decode" <=> badbody))
                /\ (non2xx => r.tag = "Err" /\ r.status = resp.status)

C8_Witness ==
    \E c \in Callers :
        /\ pc[c] = "done"
        /\ IsPrice(c)
        /\ response[c].kind = "http"
        /\ response[c].status = 200
        /\ result[c] = [tag |-> "Err", kind |-> "Decode"]

\* C9: two concurrent calls on one client do not interfere: each call's
\* dispatched query pairs are those of its own ids and timestamp, its outcome
\* is that of its own request, every step of a call can be taken whatever
\* the other call is doing, and the client's base URL and transport handle
\* stay as constructed.
C9_Independent ==
    /\ pyth = constructed
    /\ \A c \in Callers :
          /\ pc[c] = "idle" =>
                /\ \A ids \in ConcIdSeqs : ENABLED get_latest_price(c, ids)
                /\ \A ids \in ConcIdSeqs, t \in ConcTsSamples :
                      ENABLED get_price(c, PriceParams_new(ids, t))
          /\ pc[c] = "awaiting" =>
                \A resp \in Responses(wire[c]) : ENABLED Respond(c, resp)
          /\ pc[c] = "responded" =>
                ENABLED (get_price_return(c) \/ get_latest_price_return(c))
          /\ pc[c] = "done" => ENABLED Drop(c)
          /\ Active(c) =>
                LET q == wire[c].req.query
                    n == Len(call[c].ids)
                IN  /\ IdsPairsOf(q, call[c].ids)
                    /\ wire[c].via = constructed.client
                    /\ (IsLatest(c) => Len(q) = n)
                    /\ (IsPrice(c) =>
                          /\ Len(q) = n + 1
                          /\ q[n + 1][1] = "timestamp"
                          /\ Reads(q[n + 1][2], 10, call[c].timestamp))
          /\ pc[c] \in {"responded", "done"} =>
                /\ response[c] \in Responses(wire[c])
                /\ (response[c].kind = "http" =>
                      response[c].body.for = wire[c].req.query)
          /\ pc[c] = "done" =>
                /\ result[c] = execute_outcome(response[c])
                /\ (result[c].tag = "Ok" => result[c].value.for = wire[c].req.query)

C9_Witness ==
    /\ pc["A"] = "done"
    /\ IsPrice("A")
    /\ call["A"].ids = << <<0, 0, 0, 1>> >>
    /\ result["A"].tag = "Ok"
    /\ pc["B"] = "awaiting"
    /\ IsLatest("B")
    /\ call["B"].ids = << <<0, 0, 0, 255>>, <<0, 0, 0, 1>> >>

\* C10: the customize hook is applied once to every request before it is
\* dispatched and leaves its URL and method unchanged; Pyth's hook is the
\* identity, so the request dispatched has the URL, method and query pairs
\* that get_price / get_latest_price built.
C10_CustomizeFrame ==
    \A c \in Callers :
        Active(c) =>
            /\ hooked[c] = 1
            /\ hooked[c] = sent[c]
            /\ wire[c].req.url = built[c].url
            /\ wire[c].req.method = built[c].method
            /\ wire[c].req.query = built[c].query
            /\ built[c].method = "GET"

C10_Witness ==
    \E c \in Callers :
        /\ pc[c] = "awaiting"
        /\ IsLatest(c)
        /\ Len(built[c].query) = 2
        /\ wire[c].req = built[c]

=============================================================================
